---- MODULE Spec2Model ----
(***************************************************************************)
(* Decision core of the gateway: the Zero Trust policy rule engine         *)
(* (zero_trust_control/access_rules.py), the packet rule store             *)
(* (firewall_engine/rule_engine.py), the packet filter                     *)
(* (firewall_engine/packet_filter.py), the response dispatcher             *)
(* (firewall_engine/response_automation.py), the threat feed updater       *)
(* (threat_intelligence/rule_updater.py), the session monitor              *)
(* (zero_trust_control/session_monitor.py) and the identity verification   *)
(* (zero_trust_control/identity_verification.py).                          *)
(*                                                                         *)
(* Python values are modelled as follows.  None (and an absent dict key,   *)
(* which dict.get turns into None) is the string "None".  Floats in [0,1]  *)
(* (trust scores, confidences) are integers in hundredths, except the      *)
(* scores of identity verification, which are binary64 values.  Port       *)
(* numbers are the strings of their digits, so that a port can be compared *)
(* with the wildcard "*".  Wall-clock fields (created_at, last_seen, when, *)
(* timestamp) are left out: no branch of the code reads them.  The dates   *)
(* identity verification compares with the clock are given by their age.   *)
(***************************************************************************)
EXTENDS Integers, Sequences, FiniteSets, TLC

VARIABLES
    policy_rules,    \* access_rules.RuleEngine.rules
    policy_log,      \* history: the rules in the order add_rule received them
    policy_result,   \* the last call of access_rules.RuleEngine.evaluate
    rules,           \* rule_engine.RuleEngine.rules (in memory)
    disk,            \* contents of rule_engine.RuleEngine.persist_path
    store_op,        \* the last load or save of rule_engine.RuleEngine
    decision,        \* the last record returned by PacketFilter.inspect_packet
    actions_log,     \* contents of response_automation.LOG_FILE
    sessions,        \* session_monitor._sessions
    session_events,  \* session_monitor._session_events
    last_op,         \* the last call made on the session monitor
    verify_result,   \* the last call of identity_verification.verify_context
    session_threads, \* threads inside session_monitor.update_session
    session_calls,   \* history: the update_session calls made by threads
    store_threads,   \* threads inside RuleEngine.add_rule / remove_rule
    store_calls      \* history: the add_rule / remove_rule calls made by threads

vars == <<policy_rules, policy_log, policy_result, rules, disk, store_op,
          decision, actions_log, sessions, session_events, last_op,
          verify_result, session_threads, session_calls, store_threads,
          store_calls>>

policy_vars == <<policy_rules, policy_log, policy_result>>
firewall_vars == <<rules, disk, store_op, decision, actions_log>>
session_vars == <<sessions, session_events, last_op>>
identity_vars == <<verify_result>>
thread_vars == <<session_threads, session_calls, store_threads, store_calls>>

None == "None"

(***************************************************************************)
(* zero_trust_control/access_rules.py                                      *)
(***************************************************************************)

\* Largest number of rules added to one policy engine.
MaxPolicyRules == 3

\* context["trust_score"]: absent, a float (in hundredths), or a value that
\* is no number (a non-numeric string).
ScoreInputs ==
    { [kind |-> "none", val |-> 0],
      [kind |-> "num", val |-> 10],
      [kind |-> "num", val |-> 50],
      [kind |-> "num", val |-> 90],
      [kind |-> "str", val |-> 0] }

\* The context dict, and the hour (utcnow().hour + tz) % 24 the clock gives.
Contexts ==
    [trust_score : ScoreInputs, user_role : {"admin", "user"},
     is_internal : {TRUE}, hour : {3, 12}]

Resources == {"res"}

\* context.get("trust_score") or context.get("score") or 0.0
ScoreOrZero(context) ==
    IF context.trust_score.kind = "none" THEN [kind |-> "num", val |-> 0]
    ELSE context.trust_score

\* lambda c, r: (c.get("trust_score") or c.get("score") or 0.0) < 0.3
block_low_trust_predicate(context, resource) ==
    LET score == ScoreOrZero(context)
    IN  IF score.kind = "str" THEN "raise"            \* str < float: TypeError
        ELSE IF score.val < 30 THEN "True" ELSE "False"

\* trust_score_above(threshold): float(score) >= threshold
trust_score_above(threshold, context, resource) ==
    LET score == ScoreOrZero(context)
    IN  IF score.kind = "str" THEN "raise"            \* float("..."): ValueError
        ELSE IF score.val >= threshold THEN "True" ELSE "False"

time_of_day_allowed(start_h, end_h, context, resource) ==
    IF start_h <= context.hour /\ context.hour < end_h THEN "True" ELSE "False"

always_allow_admin_network(context, resource) ==
    IF context.user_role = "admin" /\ context.is_internal THEN "True" ELSE "False"

\* self.predicate(context, resource): "True", "False" or "raise".
predicate_call(pred, context, resource) ==
    CASE pred.kind = "low_trust" -> block_low_trust_predicate(context, resource)
      [] pred.kind = "trust_score_above" -> trust_score_above(pred.a, context, resource)
      [] pred.kind = "time_of_day_allowed" ->
             time_of_day_allowed(pred.a, pred.b, context, resource)
      [] pred.kind = "admin_network" -> always_allow_admin_network(context, resource)

Pred(kind, a, b) == [kind |-> kind, a |-> a, b |-> b]

Rule(name, predicate, action, priority) ==
    [name |-> name, predicate |-> predicate, action |-> action, priority |-> priority]

\* The rules of default_rule_engine, and two more that tie with them.
PolicyRuleInputs ==
    { Rule("block_low_trust", Pred("low_trust", 0, 0), "deny", 10),
      Rule("allow_high_trust", Pred("trust_score_above", 80, 0), "allow", 20),
      Rule("working_hours_allow", Pred("time_of_day_allowed", 7, 20), "allow", 50),
      Rule("admin_internal", Pred("admin_network", 0, 0), "allow", 15),
      Rule("challenge_mid_trust", Pred("trust_score_above", 40, 0), "challenge", 20),
      Rule("quarantine_any", Pred("trust_score_above", 0, 0), "quarantine", 10) }

\* Rule.applies with the exception escaping instead of being caught.
applies_propagating(rule, context, resource) ==
    predicate_call(rule.predicate, context, resource)

\* Rule.applies: "True" or "False"; a predicate that raises is logged and
\* counts as False.
applies(rule, context, resource) ==
    LET r == predicate_call(rule.predicate, context, resource)
    IN  IF r = "raise" THEN "False" ELSE r

\* list.sort(key=lambda r: r.priority): stable insertion of each element
\* after the elements whose key is not larger.
RECURSIVE InsertByPriority(_, _)
InsertByPriority(sorted, r) ==
    IF sorted = <<>> THEN <<r>>
    ELSE IF Head(sorted).priority <= r.priority
         THEN <<Head(sorted)>> \o InsertByPriority(Tail(sorted), r)
         ELSE <<r>> \o sorted

RECURSIVE SortByPriorityFrom(_, _)
SortByPriorityFrom(done, rest) ==
    IF rest = <<>> THEN done
    ELSE SortByPriorityFrom(InsertByPriority(done, Head(rest)), Tail(rest))

\* add_rule without the sort.
sort_rules_missing(rs) == rs

\* self.rules.sort(key=lambda r: r.priority)
sort_rules(rs) == SortByPriorityFrom(<<>>, rs)

\* The for loop of evaluate over rs[i..]: the first rule that applies, an
\* escaping exception ("raise"), or default-deny.
RECURSIVE evaluate_from(_, _, _)
evaluate_from(rs, context, resource) ==
    IF rs = <<>> THEN [action |-> "deny", rule |-> "default-deny"]
    ELSE LET a == applies(Head(rs), context, resource)
         IN  IF a = "raise" THEN [action |-> "raise", rule |-> Head(rs).name]
             ELSE IF a = "True"
                  THEN [action |-> Head(rs).action, rule |-> Head(rs).name]
                  ELSE evaluate_from(Tail(rs), context, resource)

\* evaluate with "allow" returned when the loop finds no rule.
evaluate_default_allow(rs, context, resource) ==
    LET out == evaluate_from(rs, context, resource)
    IN  IF out.rule = "default-deny" THEN [action |-> "allow", rule |-> "default-allow"]
        ELSE out

\* RuleEngine.evaluate
evaluate(rs, context, resource) == evaluate_from(rs, context, resource)

\* RuleEngine.add_rule
Policy_add_rule(rule) ==
    /\ Len(policy_rules) < MaxPolicyRules
    /\ policy_rules' = sort_rules(Append(policy_rules, rule))
    /\ policy_log' = Append(policy_log, rule)
    /\ UNCHANGED <<policy_result, firewall_vars, session_vars,
                   identity_vars, thread_vars>>

\* RuleEngine.evaluate
Policy_evaluate(context, resource) ==
    /\ policy_result' = [called |-> TRUE, context |-> context, resource |-> resource,
                         result |-> evaluate(policy_rules, context, resource)]
    /\ UNCHANGED <<policy_rules, policy_log, firewall_vars, session_vars,
                   identity_vars, thread_vars>>

\* No call of evaluate yet.
NoResult == [called |-> FALSE, context |-> None, resource |-> None, result |-> None]

(***************************************************************************)
(* firewall_engine/rule_engine.py                                          *)
(***************************************************************************)

\* Largest number of rules in the packet rule store.
MaxRules == 3

\* Largest length of the action log before a further response is taken.
MaxLog == 2

PacketRule(id, src_ip, dst_ip, protocol, port, action) ==
    [id |-> id, src_ip |-> src_ip, dst_ip |-> dst_ip, protocol |-> protocol,
     port |-> port, action |-> action]

\* Rules handed to add_rule: the rule of the module docstring, a catch-all,
\* a rule without a "port" key, and a second rule with the id "r1".
RuleInputs ==
    { PacketRule("r1", "10.0.0.5", "*", "TCP", "80", "allow"),
      PacketRule("r2", "*", "*", "*", "*", "deny"),
      PacketRule("r3", "10.0.0.9", "8.8.8.8", "UDP", None, "allow"),
      PacketRule("r1", "*", "8.8.8.8", "UDP", "443", "deny") }

RuleIds == {r.id : r \in RuleInputs}

Absent == [kind |-> "none", val |-> 0]
Num(v) == [kind |-> "num", val |-> v]

\* Packets handed to the filter; ai_confidence may be absent.
Packets ==
    [src_ip : {"10.0.0.5", "10.0.0.9"}, dst_ip : {"8.8.8.8"},
     protocol : {"TCP", "UDP"}, port : {"80", None},
     ai_pred : {"benign", "malicious"},
     ai_confidence : {Absent, Num(80), Num(93)}]

\* The condition of match with the None alternative of the port test left out.
rule_matches_strict_port(rule, packet) ==
    /\ rule.src_ip \in {packet.src_ip, "*"}
    /\ rule.dst_ip \in {packet.dst_ip, "*"}
    /\ rule.protocol \in {packet.protocol, "*"}
    /\ rule.port \in {packet.port, "*"}

\* The condition of the if statement in match.
rule_matches(rule, packet) ==
    /\ rule.src_ip \in {packet.src_ip, "*"}
    /\ rule.dst_ip \in {packet.dst_ip, "*"}
    /\ rule.protocol \in {packet.protocol, "*"}
    /\ rule.port \in {packet.port, "*", None}

\* RuleEngine.match: <<rule>> for the first matching rule, <<>> for None.
RECURSIVE match(_, _)
match(rs, packet) ==
    IF rs = <<>> THEN <<>>
    ELSE IF rule_matches(Head(rs), packet) THEN <<Head(rs)>>
    ELSE match(Tail(rs), packet)

\* decide with "allow" as the answer when no rule matches.
decide_default_allow(rs, packet) ==
    LET rule == match(rs, packet)
    IN  IF rule # <<>> THEN rule[1].action ELSE "allow"

\* RuleEngine.decide
decide(rs, packet) ==
    LET rule == match(rs, packet)
    IN  IF rule # <<>> THEN rule[1].action ELSE "deny"

\* A value as json.dump writes it: None as null, a str as a string.
json_value(v) ==
    IF v = None THEN [type |-> "null", text |-> "null"]
    ELSE [type |-> "string", text |-> v]

\* A value as json.load reads it.
python_value(j) == IF j.type = "null" THEN None ELSE j.text

\* A rule dict as a JSON object, and back.
json_object(rule) == [k \in DOMAIN rule |-> json_value(rule[k])]
python_dict(obj) == [k \in DOMAIN obj |-> python_value(obj[k])]

\* The rules file: whether it exists, the objects of its array in the order
\* written, and whether the array was written to its closing bracket.
NoFile == [exists |-> FALSE, items |-> <<>>, closed |-> FALSE]

\* json.dump(self.rules, f, indent=2) into the file opened with "w"
json_dump(rs) ==
    [exists |-> TRUE, items |-> [i \in 1..Len(rs) |-> json_object(rs[i])],
     closed |-> TRUE]

\* json.load with the order of the array reversed.
json_load_reversed(doc) ==
    [i \in 1..Len(doc.items) |-> python_dict(doc.items[Len(doc.items) + 1 - i])]

\* json.load(f) on a complete document
json_load(doc) == [i \in 1..Len(doc.items) |-> python_dict(doc.items[i])]

NoStoreOp == [op |-> None, outcome |-> None, intended |-> <<>>]

\* A save that has completed with the list rs.
Saved(rs) == [op |-> "save", outcome |-> "ok", intended |-> rs]

\* RuleEngine.add_rule: append, then save
add_rule(rule) ==
    /\ Len(rules) < MaxRules
    /\ rules' = Append(rules, rule)
    /\ disk' = json_dump(rules')
    /\ store_op' = Saved(rules')
    /\ UNCHANGED <<decision, actions_log, policy_vars, session_vars,
                   identity_vars, thread_vars>>

\* The filter of remove_rule stopping at the first rule it drops.
RECURSIVE without_id_first(_, _)
without_id_first(rs, rule_id) ==
    IF rs = <<>> THEN <<>>
    ELSE IF Head(rs).id # rule_id
         THEN <<Head(rs)>> \o without_id_first(Tail(rs), rule_id)
    ELSE Tail(rs)

\* self.rules = [r for r in self.rules if r.get("id") != rule_id]
RECURSIVE without_id(_, _)
without_id(rs, rule_id) ==
    IF rs = <<>> THEN <<>>
    ELSE IF Head(rs).id # rule_id THEN <<Head(rs)>> \o without_id(Tail(rs), rule_id)
    ELSE without_id(Tail(rs), rule_id)

\* RuleEngine.remove_rule: filter, then save
remove_rule(rule_id) ==
    /\ rules' = without_id(rules, rule_id)
    /\ disk' = json_dump(rules')
    /\ store_op' = Saved(rules')
    /\ UNCHANGED <<decision, actions_log, policy_vars, session_vars,
                   identity_vars, thread_vars>>

\* RuleEngine.__init__ on the same persist_path: self.rules = [], then load.
\* json.load raises JSONDecodeError on a document that is not complete, and
\* the constructor raises with it.
load ==
    /\ IF ~disk.exists
       THEN /\ rules' = <<>>
            /\ store_op' = [op |-> "load", outcome |-> "ok", intended |-> <<>>]
       ELSE IF disk.closed
       THEN /\ rules' = json_load(disk)
            /\ store_op' = [op |-> "load", outcome |-> "ok", intended |-> rules']
       ELSE /\ rules' = <<>>
            /\ store_op' = [op |-> "load", outcome |-> "raise", intended |-> <<>>]
    /\ UNCHANGED <<disk, decision, actions_log, policy_vars, session_vars,
                   identity_vars, thread_vars>>

\* The documents save leaves when it stops between open(path, "w"), which
\* truncates the file, and the end of json.dump: the empty file, or the
\* objects written so far without the closing bracket.
interrupted_documents(rs) ==
    {[exists |-> TRUE, items |-> SubSeq(json_dump(rs).items, 1, k), closed |-> FALSE] :
         k \in 0..Len(rs)}

\* The process dies during save of the list new: before open, between open
\* and the end of the write, or after it. The list in memory is lost with the
\* process.
save_crash(new) ==
    /\ disk' \in {disk} \cup interrupted_documents(new) \cup {json_dump(new)}
    /\ rules' = <<>>
    /\ store_op' = [op |-> "save", outcome |-> "crash", intended |-> new]
    /\ UNCHANGED <<decision, actions_log, policy_vars, session_vars,
                   identity_vars, thread_vars>>

\* save raises OSError, in open or in a write; nothing catches it, the list
\* in memory keeps the change made before save was called.
save_raises(new) ==
    /\ disk' \in {disk} \cup interrupted_documents(new)
    /\ rules' = new
    /\ store_op' = [op |-> "save", outcome |-> "raise", intended |-> new]
    /\ UNCHANGED <<decision, actions_log, policy_vars, session_vars,
                   identity_vars, thread_vars>>

\* add_rule and remove_rule with a crash or an OSError in save
add_rule_crash(rule) == Len(rules) < MaxRules /\ save_crash(Append(rules, rule))
remove_rule_crash(rule_id) == save_crash(without_id(rules, rule_id))
add_rule_raises(rule) == Len(rules) < MaxRules /\ save_raises(Append(rules, rule))
remove_rule_raises(rule_id) == save_raises(without_id(rules, rule_id))

\* A RuleEngine exists: the process has not died and the constructor has not
\* raised.
Running ==
    ~ \/ store_op.outcome = "crash"
      \/ store_op.op = "load" /\ store_op.outcome = "raise"

(***************************************************************************)
(* firewall_engine/rule_engine.py: add_rule and remove_rule called by      *)
(* threads on one RuleEngine.  The class takes no lock; a thread can be    *)
(* suspended between any two of the steps below.                           *)
(***************************************************************************)

StoreThreads == {"t1", "t2"}

\* Largest number of add_rule and remove_rule calls the threads make.
MaxStoreCalls == 3

\* Rules and ids of the calls made by threads.
ThreadRules == {r \in RuleInputs : r.id # "r1"}
ThreadRuleIds == {"r1", "r2"}

NoRule == PacketRule(None, None, None, None, None, None)

\* A thread outside the store.  Inside, filtered is the list the
\* comprehension of remove_rule has built, buffer the text json.dump has
\* written to the file object, which reaches the file when it is closed.
IdleStoreThread ==
    [pc |-> "idle", rule |-> NoRule, rule_id |-> None, filtered |-> <<>>,
     buffer |-> NoFile]

NoStoreCalls == [count |-> 0, added |-> {}, removed |-> {}]

\* A thread enters add_rule(rule).
store_call_add(t, rule) ==
    /\ store_threads[t].pc = "idle"
    /\ store_threads' = [store_threads EXCEPT
                            ![t] = [IdleStoreThread EXCEPT !.pc = "append",
                                                           !.rule = rule]]
    /\ store_calls' = [store_calls EXCEPT !.count = @ + 1,
                                          !.added = @ \cup {rule}]
    /\ UNCHANGED <<rules, disk, store_op, decision, actions_log, policy_vars,
                   session_vars, identity_vars, session_threads, session_calls>>

\* self.rules.append(rule)
store_append(t) ==
    /\ store_threads[t].pc = "append"
    /\ rules' = Append(rules, store_threads[t].rule)
    /\ store_threads' = [store_threads EXCEPT ![t].pc = "open"]
    /\ UNCHANGED <<disk, store_op, decision, actions_log, policy_vars,
                   session_vars, identity_vars, session_threads, session_calls,
                   store_calls>>

\* A thread enters remove_rule(rule_id).
store_call_remove(t, rule_id) ==
    /\ store_threads[t].pc = "idle"
    /\ store_threads' = [store_threads EXCEPT
                            ![t] = [IdleStoreThread EXCEPT !.pc = "filter",
                                                           !.rule_id = rule_id]]
    /\ store_calls' = [store_calls EXCEPT !.count = @ + 1,
                                          !.removed = @ \cup {rule_id}]
    /\ UNCHANGED <<rules, disk, store_op, decision, actions_log, policy_vars,
                   session_vars, identity_vars, session_threads, session_calls>>

\* [r for r in self.rules if r.get("id") != rule_id]: the list is built
store_filter(t) ==
    /\ store_threads[t].pc = "filter"
    /\ store_threads' = [store_threads EXCEPT
                            ![t].pc = "assign",
                            ![t].filtered = without_id(rules, store_threads[t].rule_id)]
    /\ UNCHANGED <<rules, disk, store_op, decision, actions_log, policy_vars,
                   session_vars, identity_vars, session_threads, session_calls,
                   store_calls>>

\* self.rules = ...: the list built is assigned
store_assign(t) ==
    /\ store_threads[t].pc = "assign"
    /\ rules' = store_threads[t].filtered
    /\ store_threads' = [store_threads EXCEPT ![t].pc = "open"]
    /\ UNCHANGED <<disk, store_op, decision, actions_log, policy_vars,
                   session_vars, identity_vars, session_threads, session_calls,
                   store_calls>>

\* save: open(self.persist_path, "w") empties the file
store_open(t) ==
    /\ store_threads[t].pc = "open"
    /\ disk' = [exists |-> TRUE, items |-> <<>>, closed |-> FALSE]
    /\ store_threads' = [store_threads EXCEPT ![t].pc = "dump"]
    /\ UNCHANGED <<rules, store_op, decision, actions_log, policy_vars,
                   session_vars, identity_vars, session_threads, session_calls,
                   store_calls>>

\* save: json.dump(self.rules, f, indent=2) writes the list as it is now
store_dump(t) ==
    /\ store_threads[t].pc = "dump"
    /\ store_threads' = [store_threads EXCEPT ![t].pc = "close",
                                              ![t].buffer = json_dump(rules)]
    /\ UNCHANGED <<rules, disk, store_op, decision, actions_log, policy_vars,
                   session_vars, identity_vars, session_threads, session_calls,
                   store_calls>>

\* The file after a text is written from its start into a file that was
\* emptied when the writer opened it and may have been written by another
\* writer since: the text, followed by what the file holds beyond the length
\* of the text.  A longer list makes a longer text; two lists of one length
\* can make texts of either order of length.
written(buffer, file) ==
    LET over == [exists |-> TRUE,
                 items |-> buffer.items \o SubSeq(file.items, Len(buffer.items) + 1,
                                                   Len(file.items)),
                 closed |-> FALSE]
    IN  IF Len(file.items) > Len(buffer.items) THEN {over}
        ELSE IF Len(file.items) = Len(buffer.items) /\ file.items # buffer.items
        THEN {buffer, over}
        ELSE {buffer}

\* save: leaving the with block closes the file and flushes the text
store_close(t) ==
    /\ store_threads[t].pc = "close"
    /\ disk' \in written(store_threads[t].buffer, disk)
    /\ store_op' = Saved(json_load(store_threads[t].buffer))
    /\ store_threads' = [store_threads EXCEPT ![t] = IdleStoreThread]
    /\ UNCHANGED <<rules, decision, actions_log, policy_vars, session_vars,
                   identity_vars, session_threads, session_calls, store_calls>>

(***************************************************************************)
(* firewall_engine/packet_filter.py                                        *)
(***************************************************************************)

\* packet.get("ai_confidence", 0)
confidence_or_zero(packet) ==
    IF packet.ai_confidence.kind = "none" THEN 0 ELSE packet.ai_confidence.val

\* The test of inspect_packet with >= in place of >.
ai_says_block_inclusive(packet) ==
    packet.ai_pred = "malicious" /\ confidence_or_zero(packet) >= 80

\* packet.get("ai_pred") == "malicious" and packet.get("ai_confidence", 0) > 0.8
ai_says_block(packet) ==
    packet.ai_pred = "malicious" /\ confidence_or_zero(packet) > 80

\* inspect_packet with the rule store asked first.
inspect_packet_rules_first(rs, packet) ==
    IF match(rs, packet) # <<>>
    THEN [decision |-> decide(rs, packet),
          reason |-> "Rule-based decision (" \o decide(rs, packet) \o ")",
          packet |-> packet]
    ELSE IF ai_says_block(packet)
    THEN [decision |-> "block", reason |-> "AI detected malicious", packet |-> packet]
    ELSE [decision |-> "deny", reason |-> "Rule-based decision (deny)", packet |-> packet]

\* PacketFilter.inspect_packet
inspect_packet(rs, packet) ==
    IF ai_says_block(packet)
    THEN [decision |-> "block", reason |-> "AI detected malicious", packet |-> packet]
    ELSE LET d == decide(rs, packet)
         IN  [decision |-> d, reason |-> "Rule-based decision (" \o d \o ")",
              packet |-> packet]

NoPacket ==
    [src_ip |-> None, dst_ip |-> None, protocol |-> None, port |-> None,
     ai_pred |-> None, ai_confidence |-> Absent]

NoDecision == [decision |-> None, reason |-> None, packet |-> NoPacket]

\* A call of PacketFilter.inspect_packet, its return value kept.
InspectPacket(packet) ==
    /\ decision' = inspect_packet(rules, packet)
    /\ UNCHANGED <<rules, disk, store_op, actions_log, policy_vars, session_vars,
                   identity_vars, thread_vars>>

(***************************************************************************)
(* firewall_engine/response_automation.py                                  *)
(***************************************************************************)

\* log_action: one entry appended to LOG_FILE
log_action(log, action, data) == Append(log, [action |-> action, data |-> data])

\* The rule block_ip builds for an address.
block_rule(ip) == PacketRule("auto_block_" \o ip, ip, "*", "*", "*", "deny")

\* block_ip with its rule put in front of the rules of the store.
block_ip_first(ip) ==
    /\ Len(rules) < MaxRules
    /\ rules' = <<block_rule(ip)>> \o rules
    /\ disk' = json_dump(rules')
    /\ store_op' = Saved(rules')
    /\ actions_log' = log_action(actions_log, "block_ip", [ip |-> ip])
    /\ UNCHANGED <<decision, policy_vars, session_vars,
                   identity_vars, thread_vars>>

\* block_ip: add the rule, then log the action
block_ip(ip) ==
    /\ Len(rules) < MaxRules
    /\ rules' = Append(rules, block_rule(ip))
    /\ disk' = json_dump(rules')
    /\ store_op' = Saved(rules')
    /\ actions_log' = log_action(actions_log, "block_ip", [ip |-> ip])
    /\ UNCHANGED <<decision, policy_vars, session_vars,
                   identity_vars, thread_vars>>

\* The branch respond_to_decision takes: its first test compares with "block".
response_branch(d) ==
    IF d.decision = "block" THEN "block"
    ELSE IF d.decision = "allow" THEN "allow"
    ELSE "isolate"

\* The rule list after respond_to_decision: block_ip appends its rule.
rules_after_response(rs, d) ==
    IF response_branch(d) = "block" THEN Append(rs, block_rule(d.packet.src_ip))
    ELSE rs

\* respond_to_decision with send_alert called after isolate_host as well.
log_after_response_alerting(log, d) ==
    LET pkt == d.packet
    IN  CASE response_branch(d) = "block" ->
                 log_action(log_action(log, "block_ip", [ip |-> pkt.src_ip]),
                            "alert",
                            [message |-> "Blocked malicious packet", details |-> pkt])
          [] response_branch(d) = "allow" -> log_action(log, "allow", pkt)
          [] OTHER ->
                 log_action(log_action(log, "isolate_host", [host |-> pkt.src_ip]),
                            "alert",
                            [message |-> "Host isolated", details |-> pkt])

\* The action log after respond_to_decision.
log_after_response(log, d) ==
    LET pkt == d.packet
    IN  CASE response_branch(d) = "block" ->
                 log_action(log_action(log, "block_ip", [ip |-> pkt.src_ip]),
                            "alert",
                            [message |-> "Blocked malicious packet", details |-> pkt])
          [] response_branch(d) = "allow" -> log_action(log, "allow", pkt)
          [] OTHER -> log_action(log, "isolate_host", [host |-> pkt.src_ip])

\* respond_to_decision on the record inspect_packet returned
\* (integration.AIFirewall.process_packet, steps 2 and 3).
respond_to_decision ==
    /\ decision # NoDecision
    /\ Len(actions_log) < MaxLog
    /\ response_branch(decision) = "block" => Len(rules) < MaxRules
    /\ rules' = rules_after_response(rules, decision)
    /\ disk' = IF response_branch(decision) = "block" THEN json_dump(rules') ELSE disk
    /\ store_op' = IF response_branch(decision) = "block" THEN Saved(rules')
                   ELSE store_op
    /\ actions_log' = log_after_response(actions_log, decision)
    /\ UNCHANGED <<decision, policy_vars, session_vars,
                   identity_vars, thread_vars>>

(***************************************************************************)
(* threat_intelligence/rule_updater.py                                     *)
(***************************************************************************)

\* ips[:1000]
FeedLimit == 1000

\* parsed_data["ips"]: addresses of a feed, which may name one address twice.
FeedIps == {"203.0.113.7", "198.51.100.9"}
FeedLists == {<<>>} \cup {<<ip>> : ip \in FeedIps}
                 \cup {<<a, b>> : a \in FeedIps, b \in FeedIps}

\* The rule update_firewall_rules builds for an address.
feed_rule(ip) == PacketRule("threat_feed_" \o ip, ip, "*", "*", "*", "deny")

\* update_firewall_rules: add_rule for each of the first 1000 addresses
update_firewall_rules(ips) ==
    LET taken == SubSeq(ips, 1, IF Len(ips) < FeedLimit THEN Len(ips) ELSE FeedLimit)
    IN  /\ taken # <<>>
        /\ Len(rules) + Len(taken) <= MaxRules
        /\ rules' = rules \o [i \in 1..Len(taken) |-> feed_rule(taken[i])]
        /\ disk' = json_dump(rules')
        /\ store_op' = Saved(rules')
        /\ UNCHANGED <<decision, actions_log, policy_vars, session_vars,
                       identity_vars, thread_vars>>

(***************************************************************************)
(* zero_trust_control/session_monitor.py                                   *)
(***************************************************************************)

\* Largest number of events recorded over all sessions.
MaxEvents == 3

DataSpikeBytes == 104857600      \* 100 * 1024 * 1024
WindowMaxLen == 500              \* deque(maxlen=500)
RecentEvents == 50               \* [-50:]
UniqueDstLimit == 20             \* unique_dst > 20
QuarantineAlerts == 2            \* len(alerts) >= 2

SessionIds == {"s1", "s2"}

SessionContexts == {"ctx"}

\* event["bytes"]: two events of 50 MiB reach the threshold exactly, one of
\* 100 MiB + 1 passes it.
EventBytes == {0, 52428800, 104857601}

Events == [bytes : EventBytes, dst_ip : {None, "10.1.0.1"}]

\* The dict create_session builds.
new_session(session_id, context) ==
    [session_id |-> session_id, context |-> context, status |-> "active",
     cumulative_bytes |-> 0, events_count |-> 0, alerts |-> <<>>]

\* deque.append without maxlen.
window_append_unbounded(window, event) == Append(window, event)

\* deque.append under maxlen: the oldest entry leaves a full window.
window_append(window, event) ==
    IF Len(window) >= WindowMaxLen THEN Append(Tail(window), event)
    ELSE Append(window, event)

\* The whole window in place of its last 50 entries.
last_events_whole_window(window) == window

\* list(window)[-50:]
last_events(window) ==
    IF Len(window) <= RecentEvents THEN window
    ELSE SubSeq(window, Len(window) - RecentEvents + 1, Len(window))

\* len({e.get("dst_ip") for e in last_events if e.get("dst_ip")})
unique_dst(window) ==
    LET recent == last_events(window)
    IN  Cardinality({recent[i].dst_ip : i \in {j \in 1..Len(recent) :
                                                  recent[j].dst_ip \notin {None, ""}}})

\* Check 1 of update_session with >= in place of >.
spike_check_inclusive(s) ==
    IF s.cumulative_bytes >= DataSpikeBytes
    THEN [s EXCEPT !.status = "suspicious",
                   !.alerts = Append(s.alerts, [reason |-> "high_data_transfer",
                                                bytes |-> s.cumulative_bytes])]
    ELSE s

\* Check 1 of update_session: sudden data spike.
spike_check(s) ==
    IF s.cumulative_bytes > DataSpikeBytes
    THEN [s EXCEPT !.status = "suspicious",
                   !.alerts = Append(s.alerts, [reason |-> "high_data_transfer",
                                                bytes |-> s.cumulative_bytes])]
    ELSE s

\* Check 2 of update_session: many unique destinations in the recent window.
destinations_check(s, window) ==
    IF unique_dst(window) > UniqueDstLimit
    THEN [s EXCEPT !.status = "suspicious",
                   !.alerts = Append(s.alerts, [reason |-> "many_unique_destinations",
                                                unique_dst |-> unique_dst(window)])]
    ELSE s

\* The session record update_session returns, given the window after the append.
updated_session(s, event, window) ==
    LET counted == [s EXCEPT !.events_count = @ + 1,
                             !.cumulative_bytes = @ + event.bytes]
    IN  destinations_check(spike_check(counted), window)

\* create_session emptying the event window of the id as well.
create_session_clearing(session_id, context) ==
    /\ sessions' = [i \in DOMAIN sessions \cup {session_id} |->
                       IF i = session_id THEN new_session(session_id, context)
                       ELSE sessions[i]]
    /\ session_events' = [session_events EXCEPT ![session_id] = <<>>]
    /\ last_op' = [op |-> "create_session", id |-> session_id, status |-> "active"]
    /\ UNCHANGED <<policy_vars, firewall_vars, identity_vars, thread_vars>>

\* create_session
create_session(session_id, context) ==
    /\ sessions' = [i \in DOMAIN sessions \cup {session_id} |->
                       IF i = session_id THEN new_session(session_id, context)
                       ELSE sessions[i]]
    /\ last_op' = [op |-> "create_session", id |-> session_id, status |-> "active"]
    /\ UNCHANGED <<session_events, policy_vars, firewall_vars,
                   identity_vars, thread_vars>>

RECURSIVE SumLen(_, _)
SumLen(f, ids) ==
    IF ids = {} THEN 0
    ELSE LET i == CHOOSE x \in ids : TRUE
         IN  Len(f[i]) + SumLen(f, ids \ {i})

\* The number of events held in all windows.
EventsRecorded == SumLen(session_events, SessionIds)

\* update_session
update_session(session_id, event) ==
    /\ LET s == IF session_id \in DOMAIN sessions THEN sessions[session_id]
                ELSE new_session(session_id, "{}")
           window == window_append(session_events[session_id], event)
           updated == updated_session(s, event, window)
       IN  /\ session_events' = [session_events EXCEPT ![session_id] = window]
           /\ sessions' = [i \in DOMAIN sessions \cup {session_id} |->
                              IF i = session_id THEN updated ELSE sessions[i]]
           /\ last_op' = [op |-> "update_session", id |-> session_id,
                          status |-> updated.status]
    /\ UNCHANGED <<policy_vars, firewall_vars, identity_vars, thread_vars>>

\* The escalation of check_session with > in place of >=.
checked_status_strict(s) ==
    IF Len(s.alerts) > QuarantineAlerts THEN "quarantined" ELSE s.status

\* The status check_session leaves on a known session.
checked_status(s) ==
    IF Len(s.alerts) >= QuarantineAlerts THEN "quarantined" ELSE s.status

\* check_session storing a record for an id it does not know.
check_session_creating(session_id) ==
    /\ IF session_id \in DOMAIN sessions
       THEN /\ sessions' = [sessions EXCEPT
                               ![session_id].status = checked_status(sessions[session_id])]
            /\ last_op' = [op |-> "check_session", id |-> session_id,
                           status |-> checked_status(sessions[session_id])]
       ELSE /\ sessions' = [i \in DOMAIN sessions \cup {session_id} |->
                               IF i = session_id THEN new_session(session_id, "{}")
                               ELSE sessions[i]]
            /\ last_op' = [op |-> "check_session", id |-> session_id,
                           status |-> "not_found"]
    /\ UNCHANGED <<session_events, policy_vars, firewall_vars,
                   identity_vars, thread_vars>>

\* check_session
check_session(session_id) ==
    /\ IF session_id \in DOMAIN sessions
       THEN /\ sessions' = [sessions EXCEPT
                               ![session_id].status = checked_status(sessions[session_id])]
            /\ last_op' = [op |-> "check_session", id |-> session_id,
                           status |-> checked_status(sessions[session_id])]
       ELSE /\ sessions' = sessions
            /\ last_op' = [op |-> "check_session", id |-> session_id,
                           status |-> "not_found"]
    /\ UNCHANGED <<session_events, policy_vars, firewall_vars,
                   identity_vars, thread_vars>>

\* end_session storing an ended record for an id it does not know.
end_session_creating(session_id) ==
    /\ sessions' = [i \in DOMAIN sessions \cup {session_id} |->
                       IF i \in DOMAIN sessions
                       THEN IF i = session_id THEN [sessions[i] EXCEPT !.status = "ended"]
                            ELSE sessions[i]
                       ELSE [new_session(session_id, "{}") EXCEPT !.status = "ended"]]
    /\ last_op' = [op |-> "end_session", id |-> session_id, status |-> None]
    /\ UNCHANGED <<session_events, policy_vars, firewall_vars,
                   identity_vars, thread_vars>>

\* end_session
end_session(session_id) ==
    /\ sessions' = IF session_id \in DOMAIN sessions
                   THEN [sessions EXCEPT ![session_id].status = "ended"]
                   ELSE sessions
    /\ last_op' = [op |-> "end_session", id |-> session_id, status |-> None]
    /\ UNCHANGED <<session_events, policy_vars, firewall_vars,
                   identity_vars, thread_vars>>

(***************************************************************************)
(* zero_trust_control/session_monitor.py: update_session called by         *)
(* threads.  The module takes no lock; a thread can be suspended between   *)
(* any two of the steps below.                                             *)
(***************************************************************************)

Threads == {"t1", "t2"}

\* Largest number of update_session calls the threads make.
MaxCalls == 3

\* Events of the calls made by threads.
ThreadEvents == [bytes : {1, 2}, dst_ip : {None}]

NoEvent == [bytes |-> 0, dst_ip |-> None]

\* A thread outside update_session.  Inside, held says that the dict s of
\* the thread is the one stored in _sessions[id]; when another thread has
\* stored a new dict there, own is the dict the thread still holds.
IdleSessionThread ==
    [pc |-> "idle", id |-> None, event |-> NoEvent, held |-> FALSE,
     own |-> new_session(None, None), tmp |-> 0]

NoCalls == [i \in SessionIds |-> [count |-> 0, bytes |-> 0]]

\* The dict s of a thread.
thread_session(t) ==
    IF session_threads[t].held THEN sessions[session_threads[t].id]
    ELSE session_threads[t].own

\* An assignment to the dict s of a thread: seen in _sessions if s is the dict
\* stored there.
thread_assign(t, s, pc) ==
    IF session_threads[t].held
    THEN /\ sessions' = [sessions EXCEPT ![session_threads[t].id] = s]
         /\ session_threads' = [session_threads EXCEPT ![t].pc = pc]
    ELSE /\ sessions' = sessions
         /\ session_threads' = [session_threads EXCEPT ![t].pc = pc, ![t].own = s]

\* A thread enters update_session(session_id, event).
thread_call(t, session_id, event) ==
    /\ session_threads[t].pc = "idle"
    /\ session_threads' = [session_threads EXCEPT
                              ![t] = [IdleSessionThread EXCEPT !.pc = "get",
                                                               !.id = session_id,
                                                               !.event = event]]
    /\ session_calls' = [session_calls EXCEPT
                            ![session_id].count = @ + 1,
                            ![session_id].bytes = @ + event.bytes]
    /\ UNCHANGED <<sessions, session_events, last_op, policy_vars, firewall_vars,
                   identity_vars, store_threads, store_calls>>

\* s = _sessions.get(session_id)
thread_get(t) ==
    /\ session_threads[t].pc = "get"
    /\ session_threads' =
           IF session_threads[t].id \in DOMAIN sessions
           THEN [session_threads EXCEPT ![t].pc = "count_load", ![t].held = TRUE]
           ELSE [session_threads EXCEPT ![t].pc = "create"]
    /\ UNCHANGED <<sessions, session_events, last_op, session_calls, policy_vars,
                   firewall_vars, identity_vars, store_threads, store_calls>>

\* if not s: s = create_session(session_id, context={}).  The new dict takes
\* the place of any dict stored under the id since the thread looked; threads
\* holding that dict keep it.
thread_create(t) ==
    LET id == session_threads[t].id
    IN  /\ session_threads[t].pc = "create"
        /\ sessions' = [i \in DOMAIN sessions \cup {id} |->
                           IF i = id THEN new_session(id, "{}") ELSE sessions[i]]
        /\ session_threads' =
               [u \in Threads |->
                   IF u = t
                   THEN [session_threads[u] EXCEPT !.pc = "count_load", !.held = TRUE]
                   ELSE IF session_threads[u].held /\ session_threads[u].id = id
                   THEN [session_threads[u] EXCEPT !.held = FALSE,
                                                   !.own = sessions[id]]
                   ELSE session_threads[u]]
        /\ UNCHANGED <<session_events, last_op, session_calls, policy_vars,
                       firewall_vars, identity_vars, store_threads, store_calls>>

\* s["events_count"] += 1: the read
thread_count_load(t) ==
    /\ session_threads[t].pc = "count_load"
    /\ session_threads' = [session_threads EXCEPT
                              ![t].pc = "count_store",
                              ![t].tmp = thread_session(t).events_count]
    /\ UNCHANGED <<sessions, session_events, last_op, session_calls, policy_vars,
                   firewall_vars, identity_vars, store_threads, store_calls>>

\* s["events_count"] += 1: the write
thread_count_store(t) ==
    /\ session_threads[t].pc = "count_store"
    /\ thread_assign(t, [thread_session(t) EXCEPT
                             !.events_count = session_threads[t].tmp + 1],
                     "bytes_load")
    /\ UNCHANGED <<session_events, last_op, session_calls, policy_vars,
                   firewall_vars, identity_vars, store_threads, store_calls>>

\* s["cumulative_bytes"] += b: the read
thread_bytes_load(t) ==
    /\ session_threads[t].pc = "bytes_load"
    /\ session_threads' = [session_threads EXCEPT
                              ![t].pc = "bytes_store",
                              ![t].tmp = thread_session(t).cumulative_bytes]
    /\ UNCHANGED <<sessions, session_events, last_op, session_calls, policy_vars,
                   firewall_vars, identity_vars, store_threads, store_calls>>

\* s["cumulative_bytes"] += b: the write
thread_bytes_store(t) ==
    /\ session_threads[t].pc = "bytes_store"
    /\ thread_assign(t, [thread_session(t) EXCEPT
                             !.cumulative_bytes =
                                 session_threads[t].tmp + session_threads[t].event.bytes],
                     "append")
    /\ UNCHANGED <<session_events, last_op, session_calls, policy_vars,
                   firewall_vars, identity_vars, store_threads, store_calls>>

\* _session_events[session_id].append(event), the two checks, return s
thread_append(t) ==
    LET id == session_threads[t].id
        window == window_append(session_events[id], session_threads[t].event)
        checked == destinations_check(spike_check(thread_session(t)), window)
    IN  /\ session_threads[t].pc = "append"
        /\ session_events' = [session_events EXCEPT ![id] = window]
        /\ IF session_threads[t].held
           THEN sessions' = [sessions EXCEPT ![id] = checked]
           ELSE sessions' = sessions
        /\ session_threads' = [session_threads EXCEPT ![t] = IdleSessionThread]
        /\ last_op' = [op |-> "update_session", id |-> id, status |-> checked.status]
        /\ UNCHANGED <<session_calls, policy_vars, firewall_vars, identity_vars,
                       store_threads, store_calls>>

(***************************************************************************)
(* Python floats (zero_trust_control/identity_verification.py)             *)
(*                                                                         *)
(* The trust scores of identity_verification are compared with thresholds  *)
(* they can reach exactly, so they are modelled as IEEE 754 binary64       *)
(* values, not as hundredths.  A float is a sign and a magnitude; the      *)
(* magnitude is a natural number of units of Base^(-ScaleLimbs), written   *)
(* as Width limbs, least significant first.  Every operation computes the  *)
(* exact result and rounds it to Precision significant bits, ties to       *)
(* even.  The values of the computation lie between 2^(-7) and 2 or are    *)
(* zero, so each is a whole number of units (Units is undefined on any     *)
(* other value) and no exponent limit is met.                              *)
(***************************************************************************)

Precision == 53
ScaleLimbs == 4
Base == 2^15
Width == ScaleLimbs + 1

RECURSIVE BitsOf(_)
BitsOf(n) == IF n = 0 THEN 0 ELSE 1 + BitsOf(n \div 2)

LimbBits == BitsOf(Base) - 1

Zero == [i \in 1..Width |-> 0]

One == [i \in 1..Width |-> IF i = ScaleLimbs + 1 THEN 1 ELSE 0]

\* The limbs of the number whose digits (of any size and sign) are d.
RECURSIVE Carry(_, _, _)
Carry(d, i, c) ==
    IF i > Len(d) THEN <<>>
    ELSE <<(d[i] + c) % Base>> \o Carry(d, i + 1, (d[i] + c) \div Base)

\* a + b, for a and b of the same length
BigAdd(a, b) == Carry([i \in 1..Len(a) |-> a[i] + b[i]], 1, 0)

\* a - b, for a >= b of the same length
BigSub(a, b) == Carry([i \in 1..Len(a) |-> a[i] - b[i]], 1, 0)

\* a * m * Base^k in n limbs, for a natural number m below Base
BigMulSmall(a, m, k, n) ==
    Carry([i \in 1..n |-> IF i > k /\ i - k <= Len(a) THEN a[i - k] * m ELSE 0],
          1, 0)

\* a * (the limbs of b from j on), in Len(a) + Len(b) limbs
RECURSIVE BigMulFrom(_, _, _)
BigMulFrom(a, b, j) ==
    IF j > Len(b) THEN [i \in 1..(Len(a) + Len(b)) |-> 0]
    ELSE IF b[j] = 0 THEN BigMulFrom(a, b, j + 1)
    ELSE BigAdd(BigMulSmall(a, b[j], j - 1, Len(a) + Len(b)),
                BigMulFrom(a, b, j + 1))

BigMul(a, b) == BigMulFrom(a, b, 1)

\* a \div m, for a natural number m below Base: limbs 1..i of the quotient,
\* r being the remainder of the limbs above i
RECURSIVE BigDivFrom(_, _, _, _)
BigDivFrom(a, m, i, r) ==
    IF i = 0 THEN <<>>
    ELSE BigDivFrom(a, m, i - 1, (r * Base + a[i]) % m)
             \o <<(r * Base + a[i]) \div m>>

BigDivSmall(a, m) == BigDivFrom(a, m, Len(a), 0)

RECURSIVE BigLessFrom(_, _, _)
BigLessFrom(a, b, i) ==
    IF i = 0 THEN FALSE
    ELSE IF a[i] # b[i] THEN a[i] < b[i]
    ELSE BigLessFrom(a, b, i - 1)

BigLess(a, b) == BigLessFrom(a, b, Len(a))

RECURSIVE TopLimb(_, _)
TopLimb(a, i) == IF i = 0 \/ a[i] # 0 THEN i ELSE TopLimb(a, i - 1)

\* the bit length of a, t being its highest nonzero limb
BitLengthAt(a, t) == IF t = 0 THEN 0 ELSE LimbBits * (t - 1) + BitsOf(a[t])

BitLength(a) == BitLengthAt(a, TopLimb(a, Len(a)))

\* bit k of a, bit 0 being the least significant
Bit(a, k) == (a[(k \div LimbBits) + 1] \div 2^(k % LimbBits)) % 2

\* a % 2^k
LowBits(a, k) ==
    [i \in 1..Len(a) |->
        IF i <= k \div LimbBits THEN a[i]
        ELSE IF i = (k \div LimbBits) + 1 THEN a[i] % 2^(k % LimbBits)
        ELSE 0]

\* 2^k in n limbs
PowerOfTwo(k, n) ==
    [i \in 1..n |-> IF i = (k \div LimbBits) + 1 THEN 2^(k % LimbBits) ELSE 0]

\* a without its lowest s bits (low, which is a % 2^s), rounded up when
\* they exceed half (which is 2^(s-1)) or equal it and the last kept bit is
\* odd
round_below(a, s, low, half) ==
    IF BigLess(half, low) \/ (low = half /\ Bit(a, s) = 1)
    THEN BigAdd(BigSub(a, low), PowerOfTwo(s, Len(a)))
    ELSE BigSub(a, low)

round_discarding(a, s) ==
    IF s <= 0 THEN a
    ELSE round_below(a, s, LowBits(a, s), PowerOfTwo(s - 1, Len(a)))

\* The binary64 value nearest to the magnitude a, ties to even.
round_to_nearest(a) == round_discarding(a, BitLength(a) - Precision)

\* The limbs of a magnitude of n + Width limbs above its lowest n limbs,
\* which are zero: the magnitude is a whole number of units.
Units(a, n) ==
    CASE \A i \in 1..n : a[i] = 0 -> [i \in 1..Width |-> a[i + n]]

Hundredths == {0, 5, 10, 15, 20, 30, 40, 50, 60, 65, 100}

\* The floats the decimal literals of the module denote, h being the
\* literal in hundredths.  The quotient h / 100 is truncated Width limbs
\* below the unit; a literal that is no binary fraction is further than
\* that from every rounding boundary, so rounding the truncation rounds the
\* literal.
Literals ==
    [h \in Hundredths |->
        [neg |-> FALSE,
         mag |-> Units(round_to_nearest(
                           BigDivSmall(BigMulSmall(One, h, Width, 2 * Width),
                                       100)), Width)]]

float_literal(h) == Literals[h]

\* x + y
float_add(x, y) ==
    IF x.neg = y.neg
    THEN [neg |-> x.neg, mag |-> round_to_nearest(BigAdd(x.mag, y.mag))]
    ELSE IF x.mag = y.mag THEN [neg |-> FALSE, mag |-> Zero]
    ELSE IF BigLess(x.mag, y.mag)
    THEN [neg |-> y.neg, mag |-> round_to_nearest(BigSub(y.mag, x.mag))]
    ELSE [neg |-> x.neg, mag |-> round_to_nearest(BigSub(x.mag, y.mag))]

\* x - y
float_sub(x, y) == float_add(x, [neg |-> ~y.neg, mag |-> y.mag])

\* The float of a sign and a magnitude; zero results are +0.0.
float_signed(neg, mag) == [neg |-> neg /\ mag # Zero, mag |-> mag]

\* x * y
float_mul(x, y) ==
    float_signed(x.neg # y.neg,
                 Units(round_to_nearest(BigMul(x.mag, y.mag)), ScaleLimbs))

\* x < y
float_lt(x, y) ==
    IF x.neg # y.neg THEN x.neg /\ (x.mag # Zero \/ y.mag # Zero)
    ELSE IF x.neg THEN BigLess(y.mag, x.mag)
    ELSE BigLess(x.mag, y.mag)

\* x >= y
float_ge(x, y) == ~float_lt(x, y)

\* min(first, second) and max(first, second): Python returns the first
\* argument unless the second is strictly smaller (greater).
python_min(first, second) == IF float_lt(second, first) THEN second ELSE first

python_max(first, second) == IF float_lt(first, second) THEN second ELSE first

\* max(0.0, min(1.0, score))
clamp(score) ==
    python_max(float_literal(0), python_min(float_literal(100), score))

(***************************************************************************)
(* Identity verification (zero_trust_control/identity_verification.py)     *)
(***************************************************************************)

\* The text "-".join-style concatenation: sep.join(parts)
RECURSIVE join(_, _)
join(sep, parts) ==
    IF parts = <<>> THEN ""
    ELSE IF Len(parts) = 1 THEN parts[1]
    ELSE parts[1] \o sep \o join(sep, Tail(parts))

Tokens == {None, "token-0", "token-1328147"}

\* _hash_token(token)[:6]
hash_prefix(token) ==
    CASE token = "token-0" -> "6c02cf"
      [] token = "token-1328147" -> "000000"

\* A date string and what the code derives from it: whether strptime
\* accepts it and the age in whole days it has when the call is made.  A
\* missing key (None) and the empty string are both falsy.
NoDate == [text |-> None, parses |-> FALSE, age_days |-> 0]

BadDate == [text |-> "not-a-date", parses |-> FALSE, age_days |-> 0]

DateAged(days) == [text |-> "date", parses |-> TRUE, age_days |-> days]

PatchLevels == {NoDate, BadDate} \cup {DateAged(days) : days \in {0, 30, 90}}

AuthTimes == {NoDate, BadDate} \cup {DateAged(days) : days \in {0, 1, 31}}

DeviceAssertions ==
    [signed_by_mdm : BOOLEAN, antivirus : {"up_to_date", "outdated"},
     patch_level : PatchLevels, device_presented_token : Tokens]

UserAssertions ==
    [auth_method : {"password", "mfa", "sso"}, mfa_ok : BOOLEAN,
     user_role : {"user", "admin"}, last_auth_time : AuthTimes]

\* reasons.append(reason) together with score += x or score -= x, x in
\* hundredths
Plus(reason, hundredths) ==
    [reason |-> reason, subtract |-> FALSE, amount |-> hundredths]

Minus(reason, hundredths) ==
    [reason |-> reason, subtract |-> TRUE, amount |-> hundredths]

\* The score after the steps, taken in order.
RECURSIVE adjusted(_, _)
adjusted(score, steps) ==
    IF steps = <<>> THEN score
    ELSE adjusted(IF Head(steps).subtract
                  THEN float_sub(score, float_literal(Head(steps).amount))
                  ELSE float_add(score, float_literal(Head(steps).amount)),
                  Tail(steps))

\* score = max(0.0, min(1.0, score)); ok = score >= 0.6; the returned dict
verdict(score, steps) ==
    [ok |-> float_ge(score, float_literal(60)),
     score |-> score,
     reasons |-> [i \in 1..Len(steps) |-> steps[i].reason]]

device_steps(device_assertion) ==
    LET patch == device_assertion.patch_level
        token == device_assertion.device_presented_token
    IN  <<IF device_assertion.signed_by_mdm
          THEN Plus("MDM signed", 30)
          ELSE Minus("No MDM signature", 20),
          IF device_assertion.antivirus = "up_to_date"
          THEN Plus("AV up-to-date", 10)
          ELSE Minus("AV outdated or missing", 10)>>
        \o (IF patch.text = None THEN <<>>
            ELSE IF ~patch.parses THEN <<Minus("Patch date parse failed", 5)>>
            ELSE IF patch.age_days < 30 THEN <<Plus("Patch recent", 10)>>
            ELSE IF patch.age_days < 90
            THEN <<Plus("Patch moderately recent", 0)>>
            ELSE <<Minus("Patch old", 15)>>)
        \o <<IF token = None THEN Minus("No device token presented", 10)
             ELSE IF hash_prefix(token) = "000000"
             THEN Plus("Device token valid", 20)
             ELSE Plus("Device token present but not validated", 0)>>

verify_device(device_assertion) ==
    verdict(clamp(adjusted(float_literal(50), device_steps(device_assertion))),
            device_steps(device_assertion))

user_steps(user_assertion) ==
    LET method == user_assertion.auth_method
        last == user_assertion.last_auth_time
    IN  <<IF method = "mfa" \/ user_assertion.mfa_ok
          THEN Plus("MFA verified", 30)
          ELSE IF method = "sso" THEN Plus("SSO auth", 15)
          ELSE Minus("Password-only or unknown auth", 20)>>
        \o (IF user_assertion.user_role = "admin"
            THEN <<Minus("Admin role -> requires stricter checks", 10)>>
            ELSE <<>>)
        \o (IF last.text = None THEN <<>>
            ELSE IF ~last.parses
            THEN <<Minus("Could not parse last_auth_time", 5)>>
            ELSE IF last.age_days < 1 THEN <<Plus("Recent authentication", 10)>>
            ELSE IF last.age_days > 30
            THEN <<Minus("Stale authentication", 10)>>
            ELSE <<>>)

verify_user(user_assertion) ==
    verdict(clamp(adjusted(float_literal(50), user_steps(user_assertion))),
            user_steps(user_assertion))

Countries == {"KP"}

\* context["geo"]: absent (None) or a dict with a country
NoGeo == [present |-> FALSE, country |-> None]

Geos == {NoGeo} \cup {[present |-> TRUE, country |-> c] : c \in Countries}

VerifyContexts ==
    [device_assertion : DeviceAssertions, user_assertion : UserAssertions,
     geo : Geos, blocked_countries : {{}, {"KP"}}]

\* if geo: ... if geo.get("country") in blocked_countries
country_blocked(context) ==
    /\ context.geo.present
    /\ context.geo.country \in context.blocked_countries

\* blocked_penalty with a penalty of 0.3
blocked_penalty_small(combined_score) ==
    float_sub(combined_score, float_literal(30))

\* combined_score -= 0.4
blocked_penalty(combined_score) == float_sub(combined_score, float_literal(40))

\* combined_score = (0.6 * dres["score"]) + (0.4 * ures["score"])
weighted_score(dres, ures) ==
    float_add(float_mul(float_literal(60), dres.score),
              float_mul(float_literal(40), ures.score))

\* The dict verify_context returns for the combined score, clamped.
context_verdict(combined_score, reasons) ==
    [allow |-> float_ge(combined_score, float_literal(65)),
     score |-> combined_score,
     reasons |-> reasons]

context_reasons(dres, ures, context) ==
    <<"device:" \o join(";", dres.reasons), "user:" \o join(";", ures.reasons)>>
        \o IF country_blocked(context)
           THEN <<"geo:" \o context.geo.country \o " blocked">>
           ELSE <<>>

verify_context_of(dres, ures, context) ==
    context_verdict(
        clamp(IF country_blocked(context)
              THEN blocked_penalty(weighted_score(dres, ures))
              ELSE weighted_score(dres, ures)),
        context_reasons(dres, ures, context))

verify_context(context) ==
    verify_context_of(verify_device(context.device_assertion),
                      verify_user(context.user_assertion), context)

NoVerification == [called |-> FALSE, context |-> None, result |-> None]

\* One call of verify_context.
VerifyContext(context) ==
    /\ verify_result' =
           [called |-> TRUE, context |-> context,
            result |-> verify_context(context)]
    /\ UNCHANGED <<policy_vars, firewall_vars, session_vars, thread_vars>>

(***************************************************************************)
(* Specifications                                                          *)
(***************************************************************************)

NoOp == [op |-> None, id |-> None, status |-> None]

\* The state after import and construction: engines without rules, no rules
\* file, an empty action log, no sessions.
Init ==
    /\ policy_rules = <<>>
    /\ policy_log = <<>>
    /\ policy_result = NoResult
    /\ rules = <<>>
    /\ disk = NoFile
    /\ store_op = NoStoreOp
    /\ decision = NoDecision
    /\ actions_log = <<>>
    /\ sessions = <<>>
    /\ session_events = [i \in SessionIds |-> <<>>]
    /\ last_op = NoOp
    /\ session_threads = [t \in Threads |-> IdleSessionThread]
    /\ session_calls = NoCalls
    /\ store_threads = [t \in StoreThreads |-> IdleStoreThread]
    /\ store_calls = NoStoreCalls
    /\ verify_result = NoVerification

\* The policy rule engine.
NextPolicy ==
    \/ \E rule \in PolicyRuleInputs : Policy_add_rule(rule)
    \/ \E context \in Contexts, resource \in Resources :
           Policy_evaluate(context, resource)

SpecPolicy == Init /\ [][NextPolicy]_vars

\* The packet rule store behind the packet filter.
NextStore ==
    \/ \E rule \in RuleInputs : add_rule(rule)
    \/ \E rule_id \in RuleIds : remove_rule(rule_id)
    \/ \E packet \in Packets : InspectPacket(packet)

SpecStore == Init /\ [][NextStore]_vars

\* Packets of the pipeline: one port and protocol, two hosts.
PipelinePackets ==
    {p \in Packets : /\ p.protocol = "TCP" /\ p.port = "80"
                     /\ p.ai_confidence = Num(93)}

\* The allow rule of the module docstring, and a rule whose action is neither
\* "allow" nor "deny".
PipelineRules ==
    {r \in RuleInputs : r.id = "r1" /\ r.action = "allow"}
        \cup {PacketRule("r5", "10.0.0.9", "*", "*", "*", "quarantine")}

\* AIFirewall.process_packet: inspect, then respond.
NextPipeline ==
    \/ \E rule \in PipelineRules : add_rule(rule)
    \/ \E packet \in PipelinePackets : InspectPacket(packet)
    \/ respond_to_decision

SpecPipeline == Init /\ [][NextPipeline]_vars

\* The session monitor.
NextSession ==
    \/ \E id \in SessionIds, context \in SessionContexts : create_session(id, context)
    \/ \E id \in SessionIds, event \in Events :
           EventsRecorded < MaxEvents /\ update_session(id, event)
    \/ \E id \in SessionIds : check_session(id)
    \/ \E id \in SessionIds : end_session(id)

SpecSession == Init /\ [][NextSession]_vars

\* Largest number of events fed to the session of the byte-count run.
MaxSpikeEvents == 102

\* An event of 1 MiB.
SpikeEvent == [bytes |-> 1048576, dst_ip |-> None]

\* One session fed events of 1 MiB each, and read and ended at any time.
NextSpike ==
    \/ Len(session_events["s1"]) < MaxSpikeEvents /\ update_session("s1", SpikeEvent)
    \/ check_session("s1")
    \/ end_session("s1")

SpecSpike == Init /\ [][NextSpike]_vars

\* The rule store and its file: mutations that complete, and a new engine
\* constructed on the same path.
NextReload ==
    \/ \E rule \in RuleInputs : add_rule(rule)
    \/ \E rule_id \in RuleIds : remove_rule(rule_id)
    \/ load

SpecReload == Init /\ [][NextReload]_vars

\* The rule store and its file with crashes and write errors during save.
NextFaults ==
    \/ \E rule \in RuleInputs : Running /\ add_rule(rule)
    \/ \E rule_id \in RuleIds : Running /\ remove_rule(rule_id)
    \/ \E rule \in RuleInputs : Running /\ add_rule_crash(rule)
    \/ \E rule_id \in RuleIds : Running /\ remove_rule_crash(rule_id)
    \/ \E rule \in RuleInputs : Running /\ add_rule_raises(rule)
    \/ \E rule_id \in RuleIds : Running /\ remove_rule_raises(rule_id)
    \/ load

SpecFaults == Init /\ [][NextFaults]_vars

\* Every way a rule enters or leaves the store: add_rule and remove_rule,
\* block_ip, and the threat feed.
NextFeed ==
    \/ \E rule \in RuleInputs : add_rule(rule)
    \/ \E rule_id \in RuleIds \cup {block_rule(ip).id : ip \in FeedIps}
                           \cup {feed_rule(ip).id : ip \in FeedIps} :
           remove_rule(rule_id)
    \/ \E ip \in FeedIps : Len(actions_log) < MaxLog /\ block_ip(ip)
    \/ \E ips \in FeedLists : update_firewall_rules(ips)

SpecFeed == Init /\ [][NextFeed]_vars

\* Largest number of events recorded in the escalation run.
MaxMonitorEvents == 4

\* An event that passes the byte threshold at once, one that adds nothing,
\* and one with a negative byte count.
MonitorEvents == [bytes : {104857601, 0, -1048576}, dst_ip : {None}]

\* The session operations on two sessions, with events that raise alerts.
NextMonitor ==
    \/ \E id \in SessionIds, context \in SessionContexts : create_session(id, context)
    \/ \E id \in SessionIds, event \in MonitorEvents :
           EventsRecorded < MaxMonitorEvents /\ update_session(id, event)
    \/ \E id \in SessionIds : check_session(id)
    \/ \E id \in SessionIds : end_session(id)

SpecMonitor == Init /\ [][NextMonitor]_vars

\* Largest number of events fed to the session of the window run.
MaxWindowEvents == 502

\* The n-th event to arrive carries its number as its byte count.
WindowEvent(n) == [bytes |-> n, dst_ip |-> None]

\* One session fed numbered events past the capacity of its window.
NextWindow ==
    \/ /\ "s1" \in DOMAIN sessions => sessions["s1"].events_count < MaxWindowEvents
       /\ update_session("s1", WindowEvent(IF "s1" \in DOMAIN sessions
                                            THEN sessions["s1"].events_count + 1
                                            ELSE 1))
    \/ check_session("s1")
    \/ end_session("s1")

SpecWindow == Init /\ [][NextWindow]_vars

\* Largest number of events fed to a session of the destinations run.
MaxDstEvents == 52

\* The i-th destination address.
Dst(i) == "10.2.0." \o ToString(i)

\* The i-th event of a session: "s1" sends 5 MiB to a new destination each
\* time, so that its 21st event passes both thresholds at once; "s2" sends
\* nothing to 21 destinations and then events with no destination or an
\* empty one, so that the first destinations leave the last 50 entries.
DstEvent(id, i) ==
    IF id = "s1" THEN [bytes |-> 5242880, dst_ip |-> Dst(i)]
    ELSE IF i <= 21 THEN [bytes |-> 0, dst_ip |-> Dst(i)]
    ELSE [bytes |-> 0, dst_ip |-> IF i % 2 = 0 THEN None ELSE ""]

\* One of the two sessions is fed its events, and read at any time.
NextDestinations ==
    \/ \E id \in SessionIds :
           /\ Len(session_events[id]) < MaxDstEvents
           /\ \A other \in SessionIds \ {id} : session_events[other] = <<>>
           /\ update_session(id, DstEvent(id, Len(session_events[id]) + 1))
    \/ \E id \in SessionIds : check_session(id)

SpecDestinations == Init /\ [][NextDestinations]_vars

\* Addresses block_ip is called with: the sources of the packets.
BlockIps == {packet.src_ip : packet \in Packets}

\* Rules added by hand and by block_ip.
NextBlock ==
    \/ \E rule \in RuleInputs : add_rule(rule)
    \/ \E ip \in BlockIps : Len(actions_log) < MaxLog /\ block_ip(ip)

SpecBlock == Init /\ [][NextBlock]_vars

\* Largest number of events fed to the session of the re-creation run.
MaxRecreateEvents == 22

\* The i-th event of the re-creation run: nothing sent to a new destination.
RecreateEvent(i) == [bytes |-> 0, dst_ip |-> Dst(i)]

\* One session fed events to new destinations and created again at any time.
NextRecreate ==
    \/ /\ Len(session_events["s1"]) < MaxRecreateEvents
       /\ update_session("s1", RecreateEvent(Len(session_events["s1"]) + 1))
    \/ \E context \in SessionContexts : create_session("s1", context)
    \/ check_session("s1")

SpecRecreate == Init /\ [][NextRecreate]_vars

\* Threads calling update_session, one step of one thread at a time.
NextThreads ==
    \/ \E t \in Threads, id \in SessionIds, event \in ThreadEvents :
           /\ session_calls["s1"].count + session_calls["s2"].count < MaxCalls
           /\ thread_call(t, id, event)
    \/ \E t \in Threads : thread_get(t)
    \/ \E t \in Threads : thread_create(t)
    \/ \E t \in Threads : thread_count_load(t)
    \/ \E t \in Threads : thread_count_store(t)
    \/ \E t \in Threads : thread_bytes_load(t)
    \/ \E t \in Threads : thread_bytes_store(t)
    \/ \E t \in Threads : thread_append(t)

SpecThreads == Init /\ [][NextThreads]_vars

\* Threads calling add_rule and remove_rule, one step of one thread at a time.
NextStoreThreads ==
    \/ \E t \in StoreThreads, rule \in ThreadRules :
           store_calls.count < MaxStoreCalls /\ store_call_add(t, rule)
    \/ \E t \in StoreThreads, rule_id \in ThreadRuleIds :
           store_calls.count < MaxStoreCalls /\ store_call_remove(t, rule_id)
    \/ \E t \in StoreThreads : store_append(t)
    \/ \E t \in StoreThreads : store_filter(t)
    \/ \E t \in StoreThreads : store_assign(t)
    \/ \E t \in StoreThreads : store_open(t)
    \/ \E t \in StoreThreads : store_dump(t)
    \/ \E t \in StoreThreads : store_close(t)

SpecStoreThreads == Init /\ [][NextStoreThreads]_vars

\* verify_context keeps no state: a behaviour makes one call of it, on any
\* context.
NextIdentity ==
    /\ ~verify_result.called
    /\ \E context \in VerifyContexts : VerifyContext(context)

SpecIdentity == Init /\ [][NextIdentity]_vars

Next == NextPolicy \/ NextStore \/ respond_to_decision \/ NextSession

Spec == Init /\ [][Next]_vars

(***************************************************************************)
(* Properties of the policy rule engine (SpecPolicy)                       *)
(***************************************************************************)

DefaultDeny == [action |-> "deny", rule |-> "default-deny"]

\* The predicate of rule r returns true on the request.
PredicateTrue(r, context, resource) ==
    predicate_call(r.predicate, context, resource) = "True"

\* The predicate of rule r raises on the request.
PredicateRaises(r, context, resource) ==
    predicate_call(r.predicate, context, resource) = "raise"

\* policy_result is what evaluate returns on the rules now registered.
ResultIsCurrent ==
    /\ policy_result.called
    /\ policy_result.result =
           evaluate(policy_rules, policy_result.context, policy_result.resource)

\* C1: for every rule set and every (context, resource), evaluate returns
\* deny / default-deny when no rule's predicate is true, and returns an action
\* other than deny only as the action of a registered rule whose predicate is
\* true.
C1_DefaultDeny ==
    \A context \in Contexts, resource \in Resources :
        LET out == evaluate(policy_rules, context, resource)
            hits == {i \in 1..Len(policy_rules) :
                        PredicateTrue(policy_rules[i], context, resource)}
        IN  /\ hits = {} => out = DefaultDeny
            /\ out.action # "deny" =>
                   \E i \in hits : /\ policy_rules[i].action = out.action
                                   /\ policy_rules[i].name = out.rule

\* C1 witness: evaluate has answered default-deny on a non-empty rule set.
C1_Witness ==
    /\ ResultIsCurrent
    /\ Len(policy_rules) >= 2
    /\ policy_result.result = DefaultDeny
    /\ \A i \in 1..Len(policy_rules) :
           ~PredicateTrue(policy_rules[i], policy_result.context, policy_result.resource)

\* The injective maps of 1..n into itself.
Orderings(n) ==
    {f \in [1..n -> 1..n] : \A i, j \in 1..n : i # j => f[i] # f[j]}

\* Index k of the log comes before index m in (priority, insertion) order.
Before(k, m) ==
    \/ policy_log[k].priority < policy_log[m].priority
    \/ policy_log[k].priority = policy_log[m].priority /\ k < m

\* C7: after any sequence of add_rule calls the rule list holds the added
\* rules by ascending priority, equal priorities in insertion order, and
\* evaluate answers with the applying rule that is least in that order,
\* whatever the order of the calls.
C7_PriorityOrder ==
    /\ Len(policy_rules) = Len(policy_log)
    /\ \E f \in Orderings(Len(policy_log)) :
           /\ \A i \in 1..Len(policy_log) : policy_rules[i] = policy_log[f[i]]
           /\ \A i, j \in 1..Len(policy_log) : i < j => Before(f[i], f[j])
    /\ \A context \in Contexts, resource \in Resources :
           LET out == evaluate(policy_rules, context, resource)
               hits == {k \in 1..Len(policy_log) :
                           PredicateTrue(policy_log[k], context, resource)}
           IN  \A k \in hits :
                   (\A m \in hits \ {k} : Before(k, m)) =>
                       out = [action |-> policy_log[k].action,
                              rule |-> policy_log[k].name]

\* C7 witness: a rule added last, tying in priority with nothing before it and
\* lower in number than an applying rule added first, has won an evaluation.
C7_Witness ==
    /\ ResultIsCurrent
    /\ Len(policy_log) = 3
    /\ \E k, m \in 1..Len(policy_log) :
           /\ k < m
           /\ policy_log[m].priority < policy_log[k].priority
           /\ PredicateTrue(policy_log[k], policy_result.context, policy_result.resource)
           /\ PredicateTrue(policy_log[m], policy_result.context, policy_result.resource)
           /\ policy_result.result.rule = policy_log[m].name
    /\ \E k, m \in 1..Len(policy_log) :
           k < m /\ policy_log[k].priority = policy_log[m].priority

\* C8: a rule whose predicate raises counts as not matching: evaluate raises
\* nothing, goes on to the rules after it, and answers deny / default-deny
\* when no other rule's predicate is true.
C8_RaisingPredicateSkipped ==
    \A context \in Contexts, resource \in Resources :
        LET out == evaluate(policy_rules, context, resource)
            n == Len(policy_rules)
            raising == {i \in 1..n : PredicateRaises(policy_rules[i], context, resource)}
            hits == {i \in 1..n : PredicateTrue(policy_rules[i], context, resource)}
        IN  raising # {} =>
                /\ out.action # "raise"
                /\ hits = {} => out = DefaultDeny
                /\ \A i \in hits :
                       (\A j \in hits : i <= j) =>
                           out = [action |-> policy_rules[i].action,
                                  rule |-> policy_rules[i].name]

\* C8 witness: evaluate has passed a raising rule and answered with a rule
\* placed after it.
C8_Witness ==
    /\ ResultIsCurrent
    /\ \E i, j \in 1..Len(policy_rules) :
           /\ i < j
           /\ PredicateRaises(policy_rules[i], policy_result.context,
                              policy_result.resource)
           /\ PredicateTrue(policy_rules[j], policy_result.context,
                            policy_result.resource)
           /\ policy_result.result.rule = policy_rules[j].name
           /\ policy_result.result.action = "allow"

(***************************************************************************)
(* Properties of the packet rule store and the packet filter (SpecStore)   *)
(***************************************************************************)

\* A rule field is the wildcard or equals the packet's field.
FieldAccepts(rule_field, packet_field) ==
    rule_field = "*" \/ rule_field = packet_field

\* Every one of the four fields of the rule is the wildcard or equals the
\* packet's field.
MatchesByFields(rule, packet) ==
    /\ FieldAccepts(rule.src_ip, packet.src_ip)
    /\ FieldAccepts(rule.dst_ip, packet.dst_ip)
    /\ FieldAccepts(rule.protocol, packet.protocol)
    /\ FieldAccepts(rule.port, packet.port)

\* As MatchesByFields, and a rule without a port accepts every port.
MatchesByFieldsOrNoPort(rule, packet) ==
    /\ FieldAccepts(rule.src_ip, packet.src_ip)
    /\ FieldAccepts(rule.dst_ip, packet.dst_ip)
    /\ FieldAccepts(rule.protocol, packet.protocol)
    /\ FieldAccepts(rule.port, packet.port) \/ rule.port = None

\* The AI verdict on the packet is "malicious" with confidence above 0.8.
MaliciousAbove80(packet) ==
    /\ packet.ai_pred = "malicious"
    /\ packet.ai_confidence.kind = "num"
    /\ packet.ai_confidence.val > 80

\* decision is what inspect_packet returns on the rules now stored.
DecisionIsCurrent ==
    /\ decision # NoDecision
    /\ decision = inspect_packet(rules, decision.packet)

\* C2: decide returns "deny" on an empty store and for every packet no stored
\* rule matches, and returns another action only as the action of the first
\* matching rule.
C2_DecideDefaultDeny ==
    \A packet \in Packets :
        LET out == decide(rules, packet)
            hits == {i \in 1..Len(rules) : rule_matches(rules[i], packet)}
        IN  /\ hits = {} => out = "deny"
            /\ out # "deny" =>
                   \E i \in hits : /\ \A j \in hits : i <= j
                                   /\ rules[i].action = out

\* C2 witness: the filter has asked a store of two rules about a packet that
\* none of them matches, and decide answered "deny".
C2_Witness ==
    /\ DecisionIsCurrent
    /\ Len(rules) >= 2
    /\ ~MaliciousAbove80(decision.packet)
    /\ \A i \in 1..Len(rules) : ~rule_matches(rules[i], decision.packet)
    /\ decision.decision = "deny"

C9_MatchByFieldsOnly ==
    \A packet \in Packets :
        LET hits == {i \in 1..Len(rules) : MatchesByFields(rules[i], packet)}
        IN  /\ hits = {} => match(rules, packet) = <<>>
            /\ \A i \in hits :
                   (\A j \in hits : i <= j) => match(rules, packet) = <<rules[i]>>

\* C9 amended: match returns the first rule in stored order whose src_ip,
\* dst_ip and protocol are each the wildcard or equal to the packet's field and
\* whose port is the wildcard, equal to the packet's port, or absent (None);
\* it returns none when there is no such rule.
C9_MatchFirstByFieldsOrNoPort ==
    \A packet \in Packets :
        LET hits == {i \in 1..Len(rules) : MatchesByFieldsOrNoPort(rules[i], packet)}
        IN  /\ hits = {} => match(rules, packet) = <<>>
            /\ \A i \in hits :
                   (\A j \in hits : i <= j) => match(rules, packet) = <<rules[i]>>

\* C9 witness: the filter's decision came from a rule without a port, on a
\* packet with a port, although a later rule also matches the packet.
C9_Witness ==
    /\ DecisionIsCurrent
    /\ ~MaliciousAbove80(decision.packet)
    /\ decision.packet.port # None
    /\ \E i, j \in 1..Len(rules) :
           /\ i < j
           /\ match(rules, decision.packet) = <<rules[i]>>
           /\ rules[i].port = None
           /\ MatchesByFields(rules[j], decision.packet)
           /\ rules[j].action # rules[i].action
           /\ decision.decision = rules[i].action

\* C10: for every packet whose ai_pred is not "malicious" or whose
\* ai_confidence is at most 0.8 or missing, inspect_packet returns the decision
\* of decide on that packet, with a reason string and the packet itself.
C10_OtherwiseRuleDecision ==
    \A packet \in Packets :
        (\/ packet.ai_pred # "malicious"
         \/ packet.ai_confidence.kind = "none"
         \/ packet.ai_confidence.val <= 80) =>
            LET out == inspect_packet(rules, packet)
            IN  /\ out.decision = decide(rules, packet)
                /\ out.reason = "Rule-based decision (" \o decide(rules, packet) \o ")"
                /\ out.packet = packet

\* C10 witness: a packet called malicious with confidence exactly 0.8 has been
\* allowed by a stored rule.
C10_Witness ==
    /\ DecisionIsCurrent
    /\ decision.packet.ai_pred = "malicious"
    /\ decision.packet.ai_confidence = Num(80)
    /\ decision.decision = "allow"
    /\ decision.reason = "Rule-based decision (allow)"
    /\ \E i \in 1..Len(rules) : match(rules, decision.packet) = <<rules[i]>>

(***************************************************************************)
(* Properties of the response dispatcher (SpecPipeline)                    *)
(***************************************************************************)

\* The step is a call of respond_to_decision: only it writes the action log.
ResponseStep == actions_log' # actions_log

\* C4: respond_to_decision on a decision "deny", as decide produces it,
\* leaves in the packet rule store a deny rule with the packet's source
\* address and wildcard dst_ip, protocol and port, and appends an alert entry
\* to the action log.
C4_DenyBlocksSource ==
    [][(ResponseStep /\ decision.decision = "deny") =>
           /\ \E i \in 1..Len(rules') :
                  /\ rules'[i].src_ip = decision.packet.src_ip
                  /\ rules'[i].dst_ip = "*"
                  /\ rules'[i].protocol = "*"
                  /\ rules'[i].port = "*"
                  /\ rules'[i].action = "deny"
           /\ \E k \in (Len(actions_log) + 1)..Len(actions_log') :
                  actions_log'[k].action = "alert"]_vars

\* The entries the step appended to the action log.
AppendedEntries ==
    SubSeq(actions_log', Len(actions_log) + 1, Len(actions_log'))

UpdateOrCheckStep(id) ==
    last_op'.id = id /\ last_op'.op \in {"update_session", "check_session"}

\* C5: "ended" is terminal: no update_session or check_session on a session
\* that end_session has ended changes its status.
C5_EndedIsTerminal ==
    [][\A id \in SessionIds :
           (/\ id \in DOMAIN sessions
            /\ sessions[id].status = "ended"
            /\ UpdateOrCheckStep(id)) => sessions'[id].status = "ended"]_vars

\* C6: the status never moves backwards: no update_session on a quarantined
\* session sets it to "suspicious" or "active".
C6_QuarantinedStays ==
    [][\A id \in SessionIds :
           (/\ id \in DOMAIN sessions
            /\ sessions[id].status = "quarantined"
            /\ last_op'.id = id
            /\ last_op'.op = "update_session") =>
               sessions'[id].status \notin {"suspicious", "active"}]_vars

\* The step is a call of update_session on the session.
UpdateStep(id) ==
    /\ last_op'.op = "update_session"
    /\ last_op'.id = id
    /\ session_events'[id] # session_events[id]

\* The alerts of the session before the step.
AlertsBefore(id) ==
    IF id \in DOMAIN sessions THEN sessions[id].alerts ELSE <<>>

\* The alerts the step appended to the session.
NewAlerts(id) ==
    SubSeq(sessions'[id].alerts, Len(AlertsBefore(id)) + 1, Len(sessions'[id].alerts))

\* The step kept the alerts the session had.
AlertsKept(id) ==
    /\ Len(AlertsBefore(id)) <= Len(sessions'[id].alerts)
    /\ SubSeq(sessions'[id].alerts, 1, Len(AlertsBefore(id))) = AlertsBefore(id)

\* C12: an update that leaves cumulative_bytes above 104857600 leaves the
\* status "suspicious" and has appended a "high_data_transfer" alert; an
\* update that leaves it at or below 104857600 has appended no such alert.
C12_DataSpikeAlert ==
    [][\A id \in SessionIds :
           UpdateStep(id) =>
               /\ AlertsKept(id)
               /\ sessions'[id].cumulative_bytes > 104857600 =>
                      /\ sessions'[id].status = "suspicious"
                      /\ \E k \in 1..Len(NewAlerts(id)) :
                             /\ NewAlerts(id)[k].reason = "high_data_transfer"
                             /\ NewAlerts(id)[k].bytes = sessions'[id].cumulative_bytes
               /\ sessions'[id].cumulative_bytes <= 104857600 =>
                      \A k \in 1..Len(NewAlerts(id)) :
                          NewAlerts(id)[k].reason # "high_data_transfer"]_vars

\* C12 witness: the 101st event of 1048576 bytes on a fresh session has left
\* it suspicious with its first high_data_transfer alert.
C12_Witness ==
    /\ last_op.op = "update_session"
    /\ "s1" \in DOMAIN sessions
    /\ sessions["s1"].events_count = 101
    /\ sessions["s1"].cumulative_bytes = 101 * 1048576
    /\ sessions["s1"].status = "suspicious"
    /\ Len(sessions["s1"].alerts) = 1
    /\ sessions["s1"].alerts[1].reason = "high_data_transfer"

\* The number of distinct non-empty dst_ip values among the most recent 50
\* entries of the window.
DistinctRecentDst(window) ==
    LET first == IF Len(window) > 50 THEN Len(window) - 49 ELSE 1
    IN  Cardinality({window[i].dst_ip : i \in first..Len(window)} \ {None, ""})

\* C13: an update after which more than 20 distinct non-empty dst_ip values
\* lie in the most recent 50 window entries leaves the status "suspicious" and
\* has appended a "many_unique_destinations" alert; with 20 or fewer it has
\* appended none; the byte check and this check each append their alert in
\* the same update when both thresholds are passed.
C13_ManyDestinationsAlert ==
    [][\A id \in SessionIds :
           UpdateStep(id) =>
               LET n == DistinctRecentDst(session_events'[id])
                   new == NewAlerts(id)
               IN  /\ AlertsKept(id)
                   /\ n > 20 =>
                          /\ sessions'[id].status = "suspicious"
                          /\ new # <<>>
                          /\ new[Len(new)].reason = "many_unique_destinations"
                          /\ new[Len(new)].unique_dst = n
                   /\ n <= 20 =>
                          \A k \in 1..Len(new) :
                              new[k].reason # "many_unique_destinations"
                   /\ (n > 20 /\ sessions'[id].cumulative_bytes > 104857600) =>
                          /\ Len(new) = 2
                          /\ new[1].reason = "high_data_transfer"]_vars

\* C13 witness: the 21st event of a session, to its 21st destination, has
\* passed both thresholds, and the update appended both alerts.
C13_Witness ==
    /\ last_op.op = "update_session"
    /\ "s1" \in DOMAIN sessions
    /\ sessions["s1"].events_count = 21
    /\ DistinctRecentDst(session_events["s1"]) = 21
    /\ sessions["s1"].status = "suspicious"
    /\ Len(sessions["s1"].alerts) = 2
    /\ sessions["s1"].alerts[1].reason = "high_data_transfer"
    /\ sessions["s1"].alerts[2].reason = "many_unique_destinations"

\* A check_session call on a session the monitor knows.
CheckStep(id) ==
    /\ last_op'.op = "check_session"
    /\ last_op'.id = id
    /\ id \in DOMAIN sessions
    /\ <<sessions, last_op>> # <<sessions', last_op'>>

\* C14: check_session on a known session with 2 or more alerts sets and
\* reports status "quarantined"; with fewer than 2 alerts it leaves the status
\* unchanged; update_session never moves a status to "quarantined".
C14_LazyQuarantine ==
    [][\A id \in SessionIds :
           /\ CheckStep(id) =>
                  /\ sessions' = [sessions EXCEPT ![id].status = sessions'[id].status]
                  /\ last_op'.status = sessions'[id].status
                  /\ Len(sessions[id].alerts) >= 2 =>
                         sessions'[id].status = "quarantined"
                  /\ Len(sessions[id].alerts) < 2 =>
                         sessions'[id].status = sessions[id].status
           /\ (UpdateStep(id) /\ sessions'[id].status = "quarantined") =>
                  /\ id \in DOMAIN sessions
                  /\ sessions[id].status = "quarantined"
                  /\ Len(NewAlerts(id)) = 0]_vars

\* C14 witness: check_session has reported "quarantined" for a session that
\* holds exactly 2 alerts.
C14_Witness ==
    /\ last_op = [op |-> "check_session", id |-> "s1", status |-> "quarantined"]
    /\ "s1" \in DOMAIN sessions
    /\ Len(sessions["s1"].alerts) = 2
    /\ sessions["s1"].status = "quarantined"

\* A step that constructs a new engine on the path of the store.
LoadStep == store_op'.op = "load" /\ store_op' # store_op

\* C15: after add_rule and remove_rule calls that completed, a new RuleEngine
\* on the same path loads the same rules in the same order, and decide
\* answers every packet as before the reload.
C15_ReloadRoundTrip ==
    [][LoadStep =>
           /\ store_op'.outcome = "ok"
           /\ rules' = rules
           /\ \A packet \in Packets : decide(rules', packet) = decide(rules, packet)]_vars

\* C15 witness: a reload of a file of two rules or more, one of them without
\* a port.
C15_Witness ==
    /\ store_op.op = "load"
    /\ store_op.outcome = "ok"
    /\ disk.exists
    /\ Len(rules) >= 2
    /\ \E i \in 1..Len(rules) : rules[i].port = None
    /\ rules[1].id # rules[Len(rules)].id

\* C16: a crash at any point of the save of add_rule or remove_rule leaves
\* on disk the complete previous document or the complete new one.
C16_AtomicSave ==
    [][(store_op'.outcome = "crash" /\ store_op' # store_op) =>
           disk' \in {disk, json_dump(store_op'.intended)}]_vars

\* C17: a failed write of add_rule or remove_rule does not reach the caller
\* as an exception, and does not leave the list in memory different from the
\* list on disk: the change is not kept, or the write has succeeded on retry.
C17_WriteFailureHandled ==
    [][(store_op'.op = "save" /\ store_op'.outcome \notin {"ok", "crash"}
            /\ store_op' # store_op) =>
           /\ store_op'.outcome # "raise"
           /\ rules' = rules \/ disk' = json_dump(rules')]_vars

\* C18: no two rules of the store share an id, whatever add_rule,
\* remove_rule, block_ip and update_firewall_rules calls were made.
C18_UniqueRuleIds ==
    \A i, j \in 1..Len(rules) : i # j => rules[i].id # rules[j].id

\* C19: the cumulative_bytes of a session that has not been ended never
\* decreases, whatever event is recorded and whether or not the id is
\* created again.
C19_BytesMonotone ==
    [][\A id \in SessionIds :
           (id \in DOMAIN sessions /\ sessions[id].status # "ended") =>
               /\ id \in DOMAIN sessions'
               /\ sessions'[id].cumulative_bytes >= sessions[id].cumulative_bytes]_vars

\* C20: no window ever holds more than 500 entries, and after n updates of a
\* session its window holds the most recent min(n, 500) events in the order
\* they arrived: an update on a full window evicts the oldest entry.
C20_WindowHoldsMostRecent ==
    \A id \in SessionIds :
        LET w == session_events[id]
        IN  /\ Len(w) <= 500
            /\ id \in DOMAIN sessions =>
                   LET n == sessions[id].events_count
                   IN  /\ Len(w) = IF n < 500 THEN n ELSE 500
                       /\ \A k \in 1..Len(w) : w[k] = WindowEvent(n - Len(w) + k)

\* C20 witness: 502 events have arrived, and the window holds events 3 to 502.
C20_Witness ==
    /\ "s1" \in DOMAIN sessions
    /\ sessions["s1"].events_count = 502
    /\ Len(session_events["s1"]) = 500
    /\ session_events["s1"][1] = WindowEvent(3)
    /\ session_events["s1"][500] = WindowEvent(502)

\* C21: the number of alerts stored for a session stays below a bound that
\* does not grow with the number of updates: it stays below the number of
\* updates the run makes.
C21_AlertsBounded ==
    \A id \in DOMAIN sessions : Len(sessions[id].alerts) < MaxMonitorEvents

\* An end_session call for the id.
EndStep(id) == last_op'.op = "end_session" /\ last_op'.id = id

CheckUnknownStep(id) ==
    /\ last_op'.op = "check_session"
    /\ last_op'.id = id
    /\ id \notin DOMAIN sessions

\* C23: update_session and check_session can be called on an id without a
\* session; update_session then stores a session with empty context whose
\* counters are those of the one event, with the status the checks on that
\* event leave; check_session answers "not_found" and stores nothing.
C23_UnknownSessionHandled ==
    /\ [](\A id \in SessionIds \ DOMAIN sessions :
              /\ ENABLED check_session(id)
              /\ \A event \in MonitorEvents : ENABLED update_session(id, event))
    /\ [][\A id \in SessionIds :
              /\ (UpdateStep(id) /\ id \notin DOMAIN sessions) =>
                     LET s == sessions'[id]
                         event == session_events'[id][Len(session_events'[id])]
                     IN  /\ DOMAIN sessions' = DOMAIN sessions \cup {id}
                         /\ \A other \in DOMAIN sessions : sessions'[other] = sessions[other]
                         /\ s.session_id = id
                         /\ s.context = "{}"
                         /\ s.events_count = 1
                         /\ s.cumulative_bytes = event.bytes
                         /\ session_events'[id] = session_events[id] \o <<event>>
                         /\ s.status = IF s.alerts = <<>> THEN "active" ELSE "suspicious"
              /\ CheckUnknownStep(id) =>
                     /\ last_op'.status = "not_found"
                     /\ sessions' = sessions
                     /\ session_events' = session_events]_vars

\* C23 witness: check_session has answered "not_found" for an id that has no
\* session, next to a session that update_session created from one event.
C23_Witness ==
    /\ last_op = [op |-> "check_session", id |-> "s2", status |-> "not_found"]
    /\ "s2" \notin DOMAIN sessions
    /\ "s1" \in DOMAIN sessions
    /\ sessions["s1"].context = "{}"
    /\ sessions["s1"].events_count = 1
    /\ sessions["s1"].cumulative_bytes = 104857601
    /\ sessions["s1"].status = "suspicious"

\* C28: block_ip(X) puts its deny rule after the rules of the store, so a
\* packet from X that an earlier rule matches is decided after the block as
\* before it ("allow" if that rule allows), and a packet from X that no
\* earlier rule matches is decided "deny".
C28_BlockDoesNotOverride ==
    [][\A ip \in BlockIps :
           block_ip(ip) =>
               /\ Len(rules') = Len(rules) + 1
               /\ SubSeq(rules', 1, Len(rules)) = rules
               /\ rules'[Len(rules')].src_ip = ip
               /\ rules'[Len(rules')].action = "deny"
               /\ \A packet \in Packets :
                      packet.src_ip = ip =>
                          IF \E i \in 1..Len(rules) : rule_matches(rules[i], packet)
                          THEN decide(rules', packet) = decide(rules, packet)
                          ELSE decide(rules', packet) = "deny"]_vars

\* C28 witness: the source of a packet that the first rule allows has been
\* blocked, and the packet is still decided "allow".
C28_Witness ==
    /\ Len(rules) = 2
    /\ rules[1].action = "allow"
    /\ rules[2] = block_rule("10.0.0.5")
    /\ actions_log = <<[action |-> "block_ip", data |-> [ip |-> "10.0.0.5"]]>>
    /\ \E packet \in Packets :
           /\ packet.src_ip = "10.0.0.5"
           /\ rule_matches(rules[1], packet)
           /\ rule_matches(rules[2], packet)
           /\ decide(rules, packet) = "allow"

\* A create_session call for the id.
CreateStep(id) == last_op'.op = "create_session" /\ last_op'.id = id

\* C29: create_session on an id that has a session stores a fresh record
\* (active, counters 0, no alerts) and leaves the event window of the id as
\* it was; the destinations in that window count in the check of the next
\* update, whose alert depends on the window and not on events_count.
C29_RecreateKeepsWindow ==
    [][\A id \in SessionIds :
           /\ (CreateStep(id) /\ id \in DOMAIN sessions) =>
                  /\ sessions'[id].status = "active"
                  /\ sessions'[id].cumulative_bytes = 0
                  /\ sessions'[id].events_count = 0
                  /\ sessions'[id].alerts = <<>>
                  /\ session_events' = session_events
           /\ UpdateStep(id) =>
                  /\ Len(session_events'[id]) >= sessions'[id].events_count
                  /\ (\E k \in 1..Len(NewAlerts(id)) :
                          NewAlerts(id)[k].reason = "many_unique_destinations")
                        <=> DistinctRecentDst(session_events'[id]) > 20]_vars

\* C29 witness: the first event of a session created again finds 21
\* destinations in the window and raises the alert.
C29_Witness ==
    /\ "s1" \in DOMAIN sessions
    /\ sessions["s1"].events_count = 1
    /\ Len(session_events["s1"]) = 21
    /\ sessions["s1"].status = "suspicious"
    /\ Len(sessions["s1"].alerts) = 1
    /\ sessions["s1"].alerts[1].reason = "many_unique_destinations"
    /\ sessions["s1"].alerts[1].unique_dst = 21

\* The ids of the rules of a list.
IdsOf(rs) == {rs[i].id : i \in 1..Len(rs)}

\* C30: remove_rule(id) leaves the rules whose id differs from id, in their
\* order, and a complete document of that list on disk; it leaves the list as
\* it was when no rule has the id; and in a store of unique ids, removing the
\* id of a rule just added gives the list before the addition.
C30_RemoveRule ==
    /\ [][\A id \in RuleIds :
              remove_rule(id) =>
                  /\ rules' = SelectSeq(rules, LAMBDA r : r.id # id)
                  /\ id \notin IdsOf(rules) => rules' = rules
                  /\ disk'.exists /\ disk'.closed
                  /\ json_load(disk') = rules']_vars
    /\ [][\A rule \in RuleInputs :
              (add_rule(rule) /\ Cardinality(IdsOf(rules')) = Len(rules')) =>
                  without_id(rules', rule.id) = rules]_vars

\* C30 witness: remove_rule has emptied the store; the file holds the empty
\* list.
C30_Witness ==
    /\ rules = <<>>
    /\ store_op = Saved(<<>>)
    /\ disk = json_dump(<<>>)

\* C24: when every update_session call made by the threads has returned, the
\* events_count of each session is the number of calls made for its id and its
\* cumulative_bytes is the sum of their bytes.
C24_NoLostUpdate ==
    (\A t \in Threads : session_threads[t].pc = "idle") =>
        \A id \in SessionIds :
            session_calls[id].count > 0 =>
                /\ id \in DOMAIN sessions
                /\ sessions[id].events_count = session_calls[id].count
                /\ sessions[id].cumulative_bytes = session_calls[id].bytes

\* C25: when every add_rule and remove_rule call made by the threads has
\* returned, the list in memory holds every rule added whose id no call
\* removed, and nothing that was not added, and the file holds the complete
\* document of that list.
C25_StoreMutationsSafe ==
    ((\A t \in StoreThreads : store_threads[t].pc = "idle") /\ store_calls.count > 0) =>
        /\ \A rule \in store_calls.added :
               rule.id \notin store_calls.removed =>
                   \E i \in 1..Len(rules) : rules[i] = rule
        /\ \A i \in 1..Len(rules) : rules[i] \in store_calls.added
        /\ disk = json_dump(rules)

(***************************************************************************)
(* Properties of identity verification (SpecIdentity)                      *)
(***************************************************************************)

\* C26: whenever the country of the context's geo is in the context's
\* blocked_countries, verify_context returns allow = false, whatever the
\* device and user assertions are.
C26_BlockedCountryDenied ==
    (verify_result.called /\ country_blocked(verify_result.context))
        => ~verify_result.result.allow

\* A call for a blocked country whose device assertion scores 1.0 and whose
\* user assertion scores the most a user assertion can (MFA, no admin role,
\* authenticated within the day), and which is denied.
C26_Witness ==
    /\ verify_result.called
    /\ country_blocked(verify_result.context)
    /\ verify_result.context.user_assertion.mfa_ok
    /\ verify_result.context.user_assertion.user_role = "user"
    /\ verify_result.context.user_assertion.last_auth_time = DateAged(0)
    /\ verify_device(verify_result.context.device_assertion).score
           = float_literal(100)
    /\ ~verify_result.result.allow

\* 0 <= x <= 1
InUnitInterval(x) == ~x.neg /\ ~BigLess(One, x.mag)

\* 0.6 * device + 0.4 * user - 0.4 * blocked >= 0.65 in exact arithmetic,
\* device and user being float magnitudes: twenty times both sides.  The
\* clamping to [0,1] does not change the comparison with 0.65.
WeightedAtLeastThreshold(device, user, blocked) ==
    LET weighted == BigAdd(BigMulSmall(device, 12, 0, Width),
                           BigMulSmall(user, 8, 0, Width))
        needed == BigMulSmall(One, IF blocked THEN 13 + 8 ELSE 13, 0, Width)
    IN  ~BigLess(weighted, needed)

\* C27: for every device and user assertion the scores of verify_device,
\* verify_user and verify_context lie in [0,1], verify_device and
\* verify_user report ok exactly when their score is at least 0.6, and
\* verify_context reports allow exactly when 0.6 * device score + 0.4 * user
\* score, minus 0.4 for a blocked country, is at least 0.65.
C27_ScoresAndThresholds ==
    verify_result.called =>
        LET dres == verify_device(verify_result.context.device_assertion)
            ures == verify_user(verify_result.context.user_assertion)
        IN  /\ InUnitInterval(dres.score)
            /\ InUnitInterval(ures.score)
            /\ InUnitInterval(verify_result.result.score)
            /\ dres.ok <=> float_ge(dres.score, float_literal(60))
            /\ ures.ok <=> float_ge(ures.score, float_literal(60))
            /\ verify_result.result.allow
                   <=> WeightedAtLeastThreshold(
                           dres.score.mag, ures.score.mag,
                           country_blocked(verify_result.context))

====
